---- MODULE Spec2Model ----
(***************************************************************************)
(* Job Application Tracker (src/app.py): the job_applications table, the   *)
(* request handlers index, add, edit, delete and export, and the helpers   *)
(* they rely on (str.strip, date.fromisoformat, ILIKE, ORDER BY ... DESC). *)
(* Text values are sequences of one-character strings so that trimming,    *)
(* case folding, pattern matching and date parsing are computed.           *)
(***************************************************************************)
EXTENDS Integers, Naturals, Sequences, FiniteSets, TLC

VARIABLES store, resp, exported

vars == <<store, resp, exported>>

(* ---------------------------------------------------------------- bounds *)
\* Largest primary key the model lets the table hand out.
MaxId == 2

(* ------------------------------------------------------------- text data *)
SP == " "

Digits == <<"0", "1", "2", "3", "4", "5", "6", "7", "8", "9">>

Upper == <<"A", "B", "C", "D", "E", "F", "G", "H", "I", "J", "K", "L", "M",
           "N", "O", "P", "Q", "R", "S", "T", "U", "V", "W", "X", "Y", "Z">>

Lower == <<"a", "b", "c", "d", "e", "f", "g", "h", "i", "j", "k", "l", "m",
           "n", "o", "p", "q", "r", "s", "t", "u", "v", "w", "x", "y", "z">>

EMPTY == << >>

\* NULL in a Date column.
NULL == << >>

\* str.strip(): drop leading and trailing whitespace.
RECURSIVE lstrip(_)
lstrip(s) ==
  IF s # EMPTY /\ Head(s) = SP THEN lstrip(Tail(s)) ELSE s

RECURSIVE rstrip(_)
rstrip(s) ==
  IF s # EMPTY /\ s[Len(s)] = SP THEN rstrip(SubSeq(s, 1, Len(s) - 1)) ELSE s

strip(s) == rstrip(lstrip(s))

\* lower() as SQLite applies it: ASCII letters only.
lower_char(c) ==
  IF \E i \in 1..Len(Upper) : Upper[i] = c
    THEN Lower[CHOOSE i \in 1..Len(Upper) : Upper[i] = c]
    ELSE c

lower(s) == [i \in 1..Len(s) |-> lower_char(s[i])]

\* The LIKE operator: % matches any run of characters, _ exactly one.
RECURSIVE like(_, _)
like(text, pattern) ==
  IF pattern = EMPTY THEN text = EMPTY
  ELSE IF Head(pattern) = "%"
    THEN like(text, Tail(pattern))
         \/ (text # EMPTY /\ like(Tail(text), pattern))
  ELSE IF Head(pattern) = "_"
    THEN text # EMPTY /\ like(Tail(text), Tail(pattern))
  ELSE text # EMPTY /\ Head(text) = Head(pattern)
       /\ like(Tail(text), Tail(pattern))

\* column.ilike(pattern): lower(column) LIKE lower(pattern).
ilike(column, pattern) == like(lower(column), lower(pattern))

(* ------------------------------------------------------------------ dates *)
is_digit(c) == \E i \in 1..10 : Digits[i] = c

digit_value(c) == (CHOOSE i \in 1..10 : Digits[i] = c) - 1

is_leap(y) == (y % 4 = 0) /\ ((y % 100 # 0) \/ (y % 400 = 0))

days_in_month(y, m) ==
  IF m = 2 THEN (IF is_leap(y) THEN 29 ELSE 28)
  ELSE IF m \in {4, 6, 9, 11} THEN 30 ELSE 31

\* date.fromisoformat(date_str): a date <<year, month, day>>, or ValueError.
fromisoformat(s) ==
  IF Len(s) = 10 /\ s[5] = "-" /\ s[8] = "-"
     /\ \A i \in {1, 2, 3, 4, 6, 7, 9, 10} : is_digit(s[i])
  THEN LET y == digit_value(s[1]) * 1000 + digit_value(s[2]) * 100
                + digit_value(s[3]) * 10 + digit_value(s[4])
           m == digit_value(s[6]) * 10 + digit_value(s[7])
           d == digit_value(s[9]) * 10 + digit_value(s[10])
       IN IF y >= 1 /\ m \in 1..12 /\ d >= 1 /\ d <= days_in_month(y, m)
            THEN [ok |-> TRUE, value |-> <<y, m, d>>]
            ELSE [ok |-> FALSE, value |-> NULL]
  ELSE [ok |-> FALSE, value |-> NULL]

\* date.strftime('%Y-%m-%d').
strftime(d) ==
  <<Digits[(d[1] \div 1000) + 1], Digits[((d[1] \div 100) % 10) + 1],
    Digits[((d[1] \div 10) % 10) + 1], Digits[(d[1] % 10) + 1], "-",
    Digits[(d[2] \div 10) + 1], Digits[(d[2] % 10) + 1], "-",
    Digits[(d[3] \div 10) + 1], Digits[(d[3] % 10) + 1]>>

\* d1 < d2 on calendar dates.
date_lt(d1, d2) ==
  \/ d1[1] < d2[1]
  \/ d1[1] = d2[1] /\ d1[2] < d2[2]
  \/ d1[1] = d2[1] /\ d1[2] = d2[2] /\ d1[3] < d2[3]

(* ----------------------------------------------------------- the table *)
STATUS_OPTIONS == <<"Pending", "Interview Scheduled", "Selected", "Rejected">>

StatusSet == {STATUS_OPTIONS[i] : i \in 1..Len(STATUS_OPTIONS)}

\* One row of job_applications.
JobApplication(id, company, role, date_applied, status, notes) ==
  [id |-> id, company |-> company, role |-> role,
   date_applied |-> date_applied, status |-> status, notes |-> notes]

Ids(S) == {r.id : r \in S}

\* INTEGER PRIMARY KEY: one more than the largest key in the table.
NextId(S) ==
  IF S = {} THEN 1 ELSE (CHOOSE i \in Ids(S) : \A j \in Ids(S) : j <= i) + 1

\* query.get(job_id) used without the 404: an unknown id loads an empty row.
get_or_none(S, job_id) ==
  [found |-> TRUE,
   job |-> IF \E r \in S : r.id = job_id
             THEN CHOOSE r \in S : r.id = job_id
             ELSE JobApplication(job_id, EMPTY, EMPTY, NULL, "", EMPTY)]

\* query.get_or_404(job_id).
get_or_404(S, job_id) ==
  IF \E r \in S : r.id = job_id
    THEN [found |-> TRUE, job |-> CHOOSE r \in S : r.id = job_id]
    ELSE [found |-> FALSE,
          job |-> JobApplication(job_id, EMPTY, EMPTY, NULL, "", EMPTY)]

\* ORDER BY date_applied without DESC.
asc_before(r, q) ==
  \/ date_lt(r.date_applied, q.date_applied)
  \/ q.date_applied = r.date_applied /\ r.id < q.id

\* r comes before q under ORDER BY date_applied DESC; equal dates keep the
\* table's scan (rowid) order.
desc_before(r, q) ==
  \/ date_lt(q.date_applied, r.date_applied)
  \/ q.date_applied = r.date_applied /\ r.id < q.id

\* query.order_by(JobApplication.date_applied.desc()).all()
RECURSIVE order_by_date_desc(_)
order_by_date_desc(S) ==
  IF S = {} THEN << >>
  ELSE LET first == CHOOSE r \in S : \A q \in S : q = r \/ desc_before(r, q)
       IN <<first>> \o order_by_date_desc(S \ {first})

\* request.form.get(key, default) / request.args.get(key, default)
Get(form, key, default) ==
  IF key \in DOMAIN form THEN form[key] ELSE default

\* filter_by(status=...).count()
count_status(S, status) == Cardinality({r \in S : r.status = status})

\* total taken as the sum of the four named counts.
get_summary_total_of_buckets(S) ==
  [total     |-> count_status(S, "Pending") + count_status(S, "Rejected")
                 + count_status(S, "Selected")
                 + count_status(S, "Interview Scheduled"),
   pending   |-> count_status(S, "Pending"),
   rejected  |-> count_status(S, "Rejected"),
   selected  |-> count_status(S, "Selected"),
   interview |-> count_status(S, "Interview Scheduled")]

get_summary(S) ==
  [total     |-> Cardinality(S),
   pending   |-> count_status(S, "Pending"),
   rejected  |-> count_status(S, "Rejected"),
   selected  |-> count_status(S, "Selected"),
   interview |-> count_status(S, "Interview Scheduled")]

(* ---------------------------------------------------------------- inputs *)
sAb      == <<"A", "b">>
sBa      == <<"b", "a">>
sBaPad   == <<" ", "b", "a", " ">>
sDev     == <<"D", "e", "v">>
sQA      == <<"Q", "A">>
sQAPad   == <<" ", "Q", "A">>
sN       == <<"n">>
sNPad    == <<" ", "n", " ">>
sBlank   == <<" ">>
dJan01   == <<"2", "0", "2", "4", "-", "0", "1", "-", "0", "1">>
dMar01   == <<"2", "0", "2", "4", "-", "0", "3", "-", "0", "1">>
dDec31   == <<"2", "0", "2", "3", "-", "1", "2", "-", "3", "1">>
dFeb30   == <<"2", "0", "2", "4", "-", "0", "2", "-", "3", "0">>

fPadded  == [company |-> sBaPad, role |-> sQAPad, date_applied |-> dMar01,
             status |-> "Rejected", notes |-> sNPad]
fOther   == [company |-> sAb, role |-> sQA, date_applied |-> dMar01,
             status |-> "Other", notes |-> sN]
fDefaults == [company |-> sBa, role |-> sDev, date_applied |-> dJan01]
fNoCompany == [company |-> sBlank, role |-> sDev, date_applied |-> dJan01,
               status |-> "Selected", notes |-> sN]
fNoRole  == [company |-> sAb, date_applied |-> dJan01,
             status |-> "Pending", notes |-> EMPTY]
fBlankDate == [company |-> sBa, role |-> sQA, date_applied |-> sBlank,
               status |-> "Rejected", notes |-> sN]
fFeb30   == [company |-> sBa, role |-> sQA, date_applied |-> dFeb30,
             status |-> "Other", notes |-> EMPTY]
fPaddedDate == [company |-> sAb, role |-> sQA,
                date_applied |-> <<" ">> \o dJan01,
                status |-> "Selected", notes |-> EMPTY]

\* Form submissions that pass validation.
ValidForms ==
  { fPadded, fOther, fDefaults,
    [company |-> sBa, role |-> sQA, date_applied |-> dDec31,
     status |-> "Interview Scheduled", notes |-> EMPTY],
    [company |-> sAb, role |-> sDev, date_applied |-> dDec31,
     status |-> "Selected", notes |-> sN] }

\* Form submissions that fail validation.
InvalidForms ==
  { fNoCompany, fNoRole, fBlankDate, fFeb30, fPaddedDate,
    [company |-> sBa, role |-> sQA, date_applied |-> EMPTY,
     status |-> "Rejected", notes |-> sN],
    [company |-> EMPTY, role |-> sQA, date_applied |-> dFeb30,
     status |-> "Pending", notes |-> sN] }

\* Forms posted to /add.
Forms == ValidForms \cup InvalidForms

\* Forms posted to /edit/<job_id>.
EditForms == {fPadded, fOther, fDefaults, fNoCompany, fNoRole, fBlankDate,
              fFeb30}

\* Values of the job_id path segment (0 is never a primary key).
JobIds == 0..MaxId

\* Query strings of GET /.
Queries ==
  { [x \in {} |-> {}],
    [status |-> "Pending"],
    [status |-> "Other"],
    [status |-> "", search |-> sBlank],
    [search |-> <<"b">>],
    [search |-> <<" ", "A", "B", " ">>],
    [search |-> <<"%">>],
    [search |-> <<"_">>],
    [status |-> "Rejected", search |-> <<"x">>],
    [status |-> "Selected", search |-> <<"B">>] }

(* --------------------------------------------------------------- handlers *)
NotExported == [valid |-> FALSE, rows |-> << >>]

Init ==
  /\ store = {}
  /\ resp = [op |-> "start"]
  /\ exported = NotExported

\* index: the status restriction.
filter_status(S, status_filter) ==
  IF status_filter # "" /\ status_filter \in StatusSet
    THEN {r \in S : r.status = status_filter}
    ELSE S

\* index: the company search.
filter_search(S, search_query) ==
  IF search_query # EMPTY
    THEN {r \in S : ilike(r.company, <<"%">> \o search_query \o <<"%">>)}
    ELSE S

\* GET /
index ==
  \E args \in Queries :
    LET status_filter == Get(args, "status", "")
        search_query  == strip(Get(args, "search", EMPTY))
        query         == filter_search(filter_status(store, status_filter),
                                       search_query)
        applications  == order_by_date_desc(query)
    IN /\ resp' = [op |-> "index", args |-> args,
                   applications |-> applications,
                   summary |-> get_summary(store),
                   current_filter |-> status_filter,
                   search_query |-> search_query]
       /\ UNCHANGED <<store, exported>>

\* add validation with the date string trimmed before the required check.
add_validate_trimmed_date(company, role, date_str) ==
  IF company = EMPTY \/ role = EMPTY \/ strip(date_str) = EMPTY
    THEN "ValidationMissingField"
  ELSE IF ~ fromisoformat(date_str).ok
    THEN "ValidationBadDate"
  ELSE "ok"

\* add: the validation of a POST.
add_validate(company, role, date_str) ==
  IF company = EMPTY \/ role = EMPTY \/ date_str = EMPTY
    THEN "ValidationMissingField"
  ELSE IF ~ fromisoformat(date_str).ok
    THEN "ValidationBadDate"
  ELSE "ok"

\* the row built with notes stored as sent.
add_job_raw_notes(id, form) ==
  JobApplication(id,
                 strip(Get(form, "company", EMPTY)),
                 strip(Get(form, "role", EMPTY)),
                 fromisoformat(Get(form, "date_applied", EMPTY)).value,
                 Get(form, "status", "Pending"),
                 Get(form, "notes", EMPTY))

\* add: the row built from the form.
add_job(id, form) ==
  JobApplication(id,
                 strip(Get(form, "company", EMPTY)),
                 strip(Get(form, "role", EMPTY)),
                 fromisoformat(Get(form, "date_applied", EMPTY)).value,
                 Get(form, "status", "Pending"),
                 strip(Get(form, "notes", EMPTY)))

\* db.session.add(job); db.session.commit()
add_commit(S, job) == S \cup {job}

\* GET /add
add_get ==
  /\ resp' = [op |-> "add_get", outcome |-> "ok", view |-> "form"]
  /\ UNCHANGED <<store, exported>>

\* POST /add
add_post ==
  \E form \in Forms :
    LET company  == strip(Get(form, "company", EMPTY))
        role     == strip(Get(form, "role", EMPTY))
        date_str == Get(form, "date_applied", EMPTY)
        outcome  == add_validate(company, role, date_str)
        job      == add_job(NextId(store), form)
    IN /\ outcome = "ok" => NextId(store) <= MaxId
       /\ IF outcome = "ok"
            THEN /\ store' = add_commit(store, job)
                 /\ exported' = NotExported
                 /\ resp' = [op |-> "add_post", form |-> form,
                             outcome |-> outcome, view |-> "redirect_index",
                             job_id |-> job.id]
            ELSE /\ resp' = [op |-> "add_post", form |-> form,
                             outcome |-> outcome,
                             view |-> IF outcome = "ValidationMissingField"
                                        THEN "form" ELSE "redirect_add"]
                 /\ UNCHANGED <<store, exported>>

add == add_get \/ add_post

\* edit: the form values assigned to the loaded row before validation.
edit_assign(job, form) ==
  [job EXCEPT !.company = strip(Get(form, "company", EMPTY)),
              !.role    = strip(Get(form, "role", EMPTY)),
              !.status  = Get(form, "status", "Pending"),
              !.notes   = strip(Get(form, "notes", EMPTY))]

\* edit validation without the role check.
edit_validate_no_role(job, date_str) ==
  IF job.company = EMPTY \/ date_str = EMPTY
    THEN "ValidationMissingField"
  ELSE IF ~ fromisoformat(date_str).ok
    THEN "ValidationBadDate"
  ELSE "ok"

\* edit: the validation of a POST.
edit_validate(job, date_str) ==
  IF job.company = EMPTY \/ job.role = EMPTY \/ date_str = EMPTY
    THEN "ValidationMissingField"
  ELSE IF ~ fromisoformat(date_str).ok
    THEN "ValidationBadDate"
  ELSE "ok"

\* the assigned row written whatever the outcome of validation.
edit_commit_always(S, old, new, outcome) == (S \ {old}) \cup {new}

\* edit: what the request leaves in the table. Only the path that reaches
\* db.session.commit() writes the changed row; the other paths return with
\* the session uncommitted and the request's teardown discards it.
edit_commit(S, old, new, outcome) ==
  IF outcome = "ok" THEN (S \ {old}) \cup {new} ELSE S

\* GET /edit/<job_id>
edit_get ==
  \E job_id \in JobIds :
    LET got == get_or_404(store, job_id)
    IN /\ resp' = IF got.found
                    THEN [op |-> "edit_get", job_id |-> job_id,
                          outcome |-> "ok", view |-> "form", job |-> got.job]
                    ELSE [op |-> "edit_get", job_id |-> job_id,
                          outcome |-> "NotFound", view |-> "404"]
       /\ UNCHANGED <<store, exported>>

\* POST /edit/<job_id>
edit_post ==
  \E job_id \in JobIds, form \in EditForms :
    LET got      == get_or_404(store, job_id)
        assigned == edit_assign(got.job, form)
        date_str == Get(form, "date_applied", EMPTY)
        outcome  == edit_validate(assigned, date_str)
        job      == IF outcome = "ok"
                      THEN [assigned EXCEPT
                              !.date_applied = fromisoformat(date_str).value]
                      ELSE assigned
    IN IF ~ got.found
         THEN /\ resp' = [op |-> "edit_post", job_id |-> job_id,
                          outcome |-> "NotFound", view |-> "404"]
              /\ UNCHANGED <<store, exported>>
         ELSE /\ store' = edit_commit(store, got.job, job, outcome)
              /\ exported' = IF outcome = "ok" THEN NotExported ELSE exported
              /\ resp' = [op |-> "edit_post", job_id |-> job_id,
                          form |-> form, outcome |-> outcome,
                          view |-> IF outcome = "ok" THEN "redirect_index"
                                   ELSE IF outcome = "ValidationMissingField"
                                     THEN "form" ELSE "redirect_edit",
                          job |-> job]

edit == edit_get \/ edit_post

\* delete matching on company instead of the loaded row.
delete_commit_by_company(S, job) == {r \in S : r.company # job.company}

\* db.session.delete(job); db.session.commit()
delete_commit(S, job) == S \ {job}

\* POST /delete/<job_id>
delete ==
  \E job_id \in JobIds :
    LET got == get_or_404(store, job_id)
    IN IF ~ got.found
         THEN /\ resp' = [op |-> "delete", job_id |-> job_id,
                          outcome |-> "NotFound", view |-> "404"]
              /\ UNCHANGED <<store, exported>>
         ELSE /\ store' = delete_commit(store, got.job)
              /\ exported' = NotExported
              /\ resp' = [op |-> "delete", job_id |-> job_id,
                          outcome |-> "ok", view |-> "redirect_index",
                          company |-> got.job.company]

\* the first column filled with the sheet row number.
row_data_sheet_row(row_num, job) ==
  [seq          |-> row_num,
   company      |-> job.company,
   role         |-> job.role,
   date_applied |-> IF job.date_applied # NULL
                      THEN strftime(job.date_applied) ELSE EMPTY,
   status       |-> job.status,
   notes        |-> job.notes]

\* export: one data row; row_num is the sheet row, the header being row 1.
row_data(row_num, job) ==
  [seq          |-> row_num - 1,
   company      |-> job.company,
   role         |-> job.role,
   date_applied |-> IF job.date_applied # NULL
                      THEN strftime(job.date_applied) ELSE EMPTY,
   status       |-> job.status,
   notes        |-> job.notes]

\* export: the data rows of the sheet, in sheet order.
export_rows(S) ==
  LET applications == order_by_date_desc(S)
  IN [i \in 1..Len(applications) |-> row_data(i + 1, applications[i])]

\* GET /export
export ==
  LET rows == export_rows(store)
  IN /\ resp' = [op |-> "export", outcome |-> "ok", view |-> "xlsx",
                 header |-> <<"#", "Company", "Role", "Date Applied",
                              "Status", "Notes">>,
                 rows |-> rows]
     /\ exported' = [valid |-> TRUE, rows |-> rows]
     /\ UNCHANGED store

Next == index \/ add \/ edit \/ delete \/ export

Spec == Init /\ [][Next]_vars

(* ------------------------------------------------------------ properties *)
IsWrite(r) == r.op \in {"add_post", "edit_post"}

Rejected(r) ==
  r.outcome \in {"ValidationMissingField", "ValidationBadDate"}

UniqueIds(S) == \A r \in S : \A q \in S : r.id = q.id => r = q

Range(f) == {f[i] : i \in DOMAIN f}

\* sub occurs in text as a literal, case-insensitive substring.
contains_ci(text, sub) ==
  \E i \in 0..(Len(text) - Len(sub)) :
    lower(SubSeq(text, i + 1, i + Len(sub))) = lower(sub)

\* C1: the list returned by GET / holds exactly the stored records whose
\* status equals the status parameter when that parameter is one of the four
\* options, and whose company contains the trimmed search text as a literal
\* case-insensitive substring when that text is non-empty; none is omitted
\* and none is returned twice.
C1_ListExact ==
  resp.op = "index" =>
    LET st == Get(resp.args, "status", "")
        q  == strip(Get(resp.args, "search", EMPTY))
        matching ==
          {r \in store : /\ (st \in StatusSet => r.status = st)
                         /\ (q # EMPTY => contains_ci(r.company, q))}
    IN /\ Range(resp.applications) = matching
       /\ Len(resp.applications) = Cardinality(matching)

SumOfBuckets(s) == s.pending + s.interview + s.selected + s.rejected

\* C2: the summary shown by GET / has pending + interview + selected +
\* rejected <= total, with equality exactly when no stored record has a
\* status outside the four options, and its counts are those of the whole
\* table whatever the status/search parameters of the request.
C2_SummaryCounts ==
  resp.op = "index" =>
    /\ SumOfBuckets(resp.summary) <= resp.summary.total
    /\ (SumOfBuckets(resp.summary) = resp.summary.total
          <=> \A r \in store : r.status \in StatusSet)
    /\ resp.summary.total = Cardinality(store)
    /\ resp.summary.pending = Cardinality({r \in store : r.status = "Pending"})
    /\ resp.summary.interview =
         Cardinality({r \in store : r.status = "Interview Scheduled"})
    /\ resp.summary.selected =
         Cardinality({r \in store : r.status = "Selected"})
    /\ resp.summary.rejected =
         Cardinality({r \in store : r.status = "Rejected"})

C2_Witness ==
  /\ resp.op = "index"
  /\ \E r \in store : r.status \notin StatusSet
  /\ SumOfBuckets(resp.summary) < resp.summary.total
  /\ Len(resp.applications) < resp.summary.total

\* C3: an add or edit submit that ends in the missing-field or the bad-date
\* error leaves the table exactly as it was.
C3_RejectedPersistsNothing ==
  [][(IsWrite(resp') /\ Rejected(resp')) => store' = store]_vars

C3_Witness ==
  /\ resp.op = "edit_post"
  /\ resp.outcome = "ValidationBadDate"
  /\ \E r \in store : r.id = resp.job_id /\ r # resp.job

\* The outcome of validation for a form, the date string being tested for
\* emptiness as dateOf gives it.
Classify(form, dateOf(_)) ==
  IF \/ strip(Get(form, "company", EMPTY)) = EMPTY
     \/ strip(Get(form, "role", EMPTY)) = EMPTY
     \/ dateOf(Get(form, "date_applied", EMPTY)) = EMPTY
    THEN "ValidationMissingField"
  ELSE IF ~ fromisoformat(Get(form, "date_applied", EMPTY)).ok
    THEN "ValidationBadDate"
  ELSE "ok"

Raw(s) == s

\* C4 as stated: company, role and the date string are all tested for
\* emptiness after trimming, so a whitespace-only date is a missing field.
C4_Original ==
  (IsWrite(resp) /\ resp.outcome # "NotFound") =>
    resp.outcome = Classify(resp.form, strip)

\* C4: an add or edit submit ends in the missing-field error when company or
\* role is empty after trimming or the date string is empty as sent (it is
\* not trimmed); otherwise in the bad-date error when the date string does
\* not parse (a whitespace-only or padded date is a bad date); otherwise it
\* succeeds.
C4_Classification ==
  (IsWrite(resp) /\ resp.outcome # "NotFound") =>
    resp.outcome = Classify(resp.form, Raw)

C4_Witness ==
  /\ IsWrite(resp)
  /\ resp.outcome = "ValidationBadDate"
  /\ resp.form.date_applied = sBlank

\* C5: an edit (form or submit) or a delete whose id is not in the table
\* ends in NotFound and leaves the table unchanged.
C5_UnknownIdNotFound ==
  [][(/\ resp'.op \in {"edit_get", "edit_post", "delete"}
      /\ resp'.job_id \notin Ids(store))
     => (resp'.outcome = "NotFound" /\ store' = store)]_vars

C5_Witness ==
  /\ resp.op = "delete"
  /\ resp.outcome = "NotFound"
  /\ resp.job_id = 1
  /\ \E r \in store : r.id = 2

AllGiven(form) ==
  {"company", "role", "date_applied", "status", "notes"} \subseteq DOMAIN form

AddedOk(r) == r.op = "add_post" /\ r.outcome = "ok"

\* C6 as stated: the record created by a successful add reads back with
\* company, role, status and notes identical to the submitted values and the
\* date equal as a calendar value.
C6_Original ==
  (AddedOk(resp) /\ AllGiven(resp.form)) =>
    \E r \in store :
      /\ r.id = resp.job_id
      /\ r.company = resp.form.company
      /\ r.role = resp.form.role
      /\ r.date_applied = fromisoformat(resp.form.date_applied).value
      /\ r.status = resp.form.status
      /\ r.notes = resp.form.notes

\* C6: the record created by a successful add reads back with status
\* identical to the submitted value, the date equal as a calendar value, and
\* company, role and notes equal to the submitted values with leading and
\* trailing whitespace removed.
C6_RoundTrip ==
  (AddedOk(resp) /\ AllGiven(resp.form)) =>
    \E r \in store :
      /\ r.id = resp.job_id
      /\ r.company = strip(resp.form.company)
      /\ r.role = strip(resp.form.role)
      /\ r.date_applied = fromisoformat(resp.form.date_applied).value
      /\ r.status = resp.form.status
      /\ r.notes = strip(resp.form.notes)

C6_Witness ==
  /\ AddedOk(resp)
  /\ resp.form = fPadded
  /\ \E r \in store : r.id = resp.job_id /\ r.company = sBa /\ r.notes = sN

\* The data rows of an export are one row per stored record, each record
\* once, numbered 1..n in the first column, latest date_applied first.
ExportSheet(r, S) ==
  LET n == Len(r.rows)
  IN /\ r.outcome = "ok"
     /\ Len(r.header) = 6
     /\ n = Cardinality(S)
     /\ \A i \in 1..n : r.rows[i].seq = i
     /\ \E f \in [1..n -> S] :
          /\ \A i \in 1..n : \A j \in 1..n : f[i] = f[j] => i = j
          /\ \A i \in 1..n :
               /\ r.rows[i].company = f[i].company
               /\ r.rows[i].role = f[i].role
               /\ fromisoformat(r.rows[i].date_applied).value
                    = f[i].date_applied
               /\ r.rows[i].status = f[i].status
               /\ r.rows[i].notes = f[i].notes
          /\ \A i \in 1..n : \A j \in 1..n :
               i < j => ~ date_lt(f[i].date_applied, f[j].date_applied)

\* C7: every export emits exactly one data row per stored record, in
\* date_applied-descending order, with the first column numbering the rows
\* 1..n whatever the ids (no rows, and no error, for an empty table); and an
\* export that follows another with no write in between emits the same rows
\* in the same order.
C7_Export ==
  [][resp'.op = "export" =>
       /\ ExportSheet(resp', store')
       /\ store' = store
       /\ (exported.valid => resp'.rows = exported.rows)]_vars

C7_Witness ==
  /\ resp.op = "export"
  /\ Len(resp.rows) = 2
  /\ resp.rows[1].date_applied # resp.rows[2].date_applied
  /\ \E r \in store : \E q \in store :
       r.id < q.id /\ date_lt(r.date_applied, q.date_applied)

\* C8: every stored record has a non-empty company, a non-empty role and a
\* date_applied that is not NULL.
C8_RequiredFields ==
  \A r \in store :
    r.company # EMPTY /\ r.role # EMPTY /\ r.date_applied # NULL

C8_Witness ==
  /\ resp.op = "edit_post"
  /\ resp.outcome = "ok"
  /\ Cardinality(store) = 2

\* C9: the list returned by GET / is in non-increasing date_applied order,
\* whatever the status/search parameters.
C9_ListOrder ==
  resp.op = "index" =>
    \A i \in 1..Len(resp.applications) : \A j \in 1..Len(resp.applications) :
      i < j => ~ date_lt(resp.applications[i].date_applied,
                         resp.applications[j].date_applied)

C9_Witness ==
  /\ resp.op = "index"
  /\ Len(resp.applications) = 2
  /\ resp.applications[1].id > resp.applications[2].id
  /\ date_lt(resp.applications[2].date_applied,
             resp.applications[1].date_applied)

\* A successful write touches one record: add inserts one record under an id
\* not in the table; edit of X replaces the five fields of X by what valueOf
\* gives for the submitted text and keeps its id; delete of X removes X
\* only; every other record is kept as it was and ids stay unique.
OneRecordWrites(valueOf(_)) ==
  /\ (AddedOk(resp')) =>
       \E job \in store' :
         /\ job.id \notin Ids(store)
         /\ job.id = resp'.job_id
         /\ store' = store \cup {job}
  /\ (resp'.op = "edit_post" /\ resp'.outcome = "ok") =>
       \E old \in store : \E new \in store' :
         /\ old.id = resp'.job_id
         /\ new.id = resp'.job_id
         /\ store' = (store \ {old}) \cup {new}
         /\ new.company = valueOf(Get(resp'.form, "company", EMPTY))
         /\ new.role = valueOf(Get(resp'.form, "role", EMPTY))
         /\ new.date_applied = fromisoformat(resp'.form.date_applied).value
         /\ new.status = Get(resp'.form, "status", "Pending")
         /\ new.notes = valueOf(Get(resp'.form, "notes", EMPTY))
  /\ (resp'.op = "delete" /\ resp'.outcome = "ok") =>
       \E old \in store :
         /\ old.id = resp'.job_id
         /\ store' = store \ {old}
  /\ UniqueIds(store')

\* C10 as stated: the edited record takes the submitted values as they were
\* sent.
C10_Original == [][OneRecordWrites(Raw)]_vars

\* C10: every successful write touches exactly one record and ids are
\* stable, the edited record taking the submitted status, the parsed date,
\* and the submitted company, role and notes with leading and trailing
\* whitespace removed (status Pending and empty notes when not sent).
C10_OneRecordWrites == [][OneRecordWrites(strip)]_vars

C10_Witness ==
  /\ resp.op = "edit_post"
  /\ resp.outcome = "ok"
  /\ resp.form.company = sBaPad
  /\ Cardinality(store) = 2
  /\ \E r \in store : r.id = resp.job_id /\ r.company = sBa

====
